---- MODULE Spec2Model ----
(***************************************************************************)
(* A model of the subscription-saas API (src/app): the three document      *)
(* collections (users, tenants, subscriptions), the request handlers of    *)
(* routes/subscription.py, routes/tenant.py and routes/user.py, and the    *)
(* model methods they call.  A handler is split at the store accesses it   *)
(* awaits: the document it reads is a private copy (from_db_dict), and     *)
(* save() replaces the whole stored document by that copy (replace_one,    *)
(* upsert=True).                                                           *)
(***************************************************************************)
EXTENDS Integers, Sequences, FiniteSets, TLC

\* ---------------------------------------------------------------- bounds
\* The largest max_users a request supplies.
MaxCap == 2
\* How many subscription documents the store holds at most.
MaxSubs == 1
\* How many tenant documents the store holds at most.
MaxTenants == 2
\* How many user documents the store holds at most.
MaxUsers == 5
\* How many subscription documents the stores of the membership queries hold.
MaxQuerySubs == 2

\* ------------------------------------------------------ optional values
\* Python's Optional[T]: None is the empty tuple, a value v is <<v>>.
None == << >>
Some(v) == << v >>

VARIABLES
    users,     \* db.users:         _id -> document
    tenants,   \* db.tenants:       _id -> document
    subs,      \* db.subscriptions: _id -> document
    reqs       \* the request each worker is handling, or handled last

vars == << users, tenants, subs, reqs >>

\* ---------------------------------------------------------------- inputs
\* Workers that serve requests concurrently, and the single worker of a
\* serialized execution.
Procs == {"p1", "p2"}
SeqProcs == {"p1"}

\* Ids a request may name; ids outside the stored ones are unknown documents.
UserIdPool == {1, 2, 3, 4}
TenantIdPool == 1..MaxTenants
SubIdPool == 1..MaxSubs

Domains == {"acme.co", "beta.io"}

MaxUsersInputs == {None} \cup {Some(n) : n \in 0..MaxCap}

\* Request bodies of PUT /subscriptions/{id}: each field is None or a value.
SubUpdateInputs ==
    {[plan |-> pl, is_active |-> a, max_users |-> m] :
        pl \in {None, Some("pro")}, a \in {None, Some(FALSE)}, m \in MaxUsersInputs}

\* Request bodies of POST /tenants and PUT /tenants/{id}.
TenantCreateInputs ==
    {[name |-> "Acme", domain |-> d, owner_id |-> o] : d \in Domains, o \in {1, 2}}
TenantUpdateInputs ==
    {[name |-> n, domain |-> d, is_active |-> a] :
        n \in {None, Some("Renamed")},
        d \in {None} \cup {Some(x) : x \in Domains},
        a \in {None, Some(FALSE)}}

\* The bodies that set domain alone, and one that deactivates.
DomainUpdateInputs ==
    {[name |-> None, domain |-> Some(d), is_active |-> None] : d \in Domains}
    \cup {[name |-> None, domain |-> None, is_active |-> Some(FALSE)]}

\* The bodies that set max_users alone.
CapUpdateInputs ==
    {[plan |-> None, is_active |-> None, max_users |-> Some(n)] : n \in 0..MaxCap}

\* Callers and users of the concurrent executions: the tenant's owner and a
\* plain user call; the three stored users are admitted and released.
RaceCallers == {1, 2}
RaceUsers == {1, 2, 3}
\* With updates in play, two users are admitted and released.
LedgerUsers == {1, 2}

\* Ids of user documents: the registered users and the ids of new ones.
NewUserIdPool == 1..MaxUsers

Emails == {"a@x.io", "d@x.io"}

\* Request bodies of POST /users: roles is None or a list.
UserCreateInputs ==
    {[name |-> "Dana", email |-> e, roles |-> r] :
        e \in Emails, r \in {None, Some({"user", "admin"})}}

\* Request bodies of PUT /users/{id}: each field is None or a value.
UserUpdateInputs ==
    {[name |-> n, email |-> e, is_active |-> a, roles |-> r] :
        n \in {None, Some("Renamed")},
        e \in {None} \cup {Some(x) : x \in Emails},
        a \in {None, Some(FALSE)},
        r \in {None, Some({"user"})}}

\* The bodies that set email alone, with or without a new name.
EmailUpdateInputs ==
    {[name |-> n, email |-> Some(e), is_active |-> None, roles |-> None] :
        n \in {None, Some("Renamed")}, e \in Emails}

\* Request bodies of PUT /users/{id} that deactivate the account or set roles.
AccountUpdateInputs ==
    {[name |-> None, email |-> None, is_active |-> Some(FALSE), roles |-> None],
     [name |-> None, email |-> None, is_active |-> None, roles |-> Some({"user"})]}

\* Inputs of the executions that exercise every router together: the user
\* records a request names (the admin's and an unknown one), the users
\* admitted and released (a plain user, the admin and an unknown one), the owner a new
\* tenant names (user 2 or an unknown one), and one or two bodies per update.
GateTargets == {3, 4}
GateMembers == {2, 3, 4}
GateOwners == {2, 4}
GateCaps == {None, Some(1)}
GateUserCreates ==
    {[name |-> "Dana", email |-> e, roles |-> None] : e \in Emails}
GateUserUpdates ==
    {[name |-> Some("Renamed"), email |-> Some(e), is_active |-> None, roles |-> None] :
        e \in Emails}
GateTenantUpdates ==
    {[name |-> Some("Renamed"), domain |-> Some(d), is_active |-> None] : d \in Domains}
GateSubUpdates ==
    {[plan |-> Some("pro"), is_active |-> None, max_users |-> None],
     [plan |-> None, is_active |-> None, max_users |-> Some(0)]}

\* ------------------------------------------------------------ responses
Resp(status, detail) == [status |-> status, detail |-> detail]
NoResp == Resp(0, "")
Ok == Resp(200, "")

\* ------------------------------------------------------ models/subscription.py

NewSubscription(tenant_id, plan, max_users) ==
    [tenant_id |-> tenant_id,
     subscribed_user_ids |-> << >>,
     plan |-> plan,
     is_active |-> TRUE,
     max_users |-> max_users]

\* Python's `x in list`.
InList(x, list) == \E i \in 1..Len(list) : list[i] = x

\* list.remove(x): drops the first occurrence of x.
ListRemove(list, x) ==
    LET i == CHOOSE k \in 1..Len(list) :
                 list[k] = x /\ \A j \in 1..(k - 1) : list[j] # x
    IN  SubSeq(list, 1, i - 1) \o SubSeq(list, i + 1, Len(list))

\* A membership test that never matches (an ObjectId compared with a str).
is_user_subscribed_never(sub, user_id) == FALSE

is_user_subscribed(sub, user_id) == InList(user_id, sub.subscribed_user_ids)

\* Subscription.has_available_seats.
has_available_seats(sub) ==
    IF sub.max_users = None THEN TRUE
    ELSE Len(sub.subscribed_user_ids) < sub.max_users[1]

\* Subscription.find_one({"_id": id}): a copy of the stored document, or None.
Subscription_find_one(id) ==
    IF id \in DOMAIN subs THEN Some(subs[id]) ELSE None

\* replace_one that appends the copy's newest member to the stored list
\* instead of replacing the document (a $push).
Subscription_save_push(store, id, doc) ==
    [x \in DOMAIN store \cup {id} |->
        IF x # id THEN store[x]
        ELSE IF id \in DOMAIN store /\ Len(doc.subscribed_user_ids) > 0
             THEN [doc EXCEPT !.subscribed_user_ids =
                      Append(store[id].subscribed_user_ids,
                             doc.subscribed_user_ids[Len(doc.subscribed_user_ids)])]
             ELSE doc]

\* Subscription.save: replace_one({"_id": id}, to_db_dict(), upsert=True).
Subscription_save(store, id, doc) ==
    [x \in DOMAIN store \cup {id} |-> IF x = id THEN doc ELSE store[x]]

\* add_user with the capacity test admitting one member too many.
add_user_gt(sub, user_id) ==
    IF sub.max_users # None /\ Len(sub.subscribed_user_ids) > sub.max_users[1]
    THEN [result |-> FALSE, sub |-> sub, saved |-> FALSE]
    ELSE IF is_user_subscribed(sub, user_id)
    THEN [result |-> TRUE, sub |-> sub, saved |-> FALSE]
    ELSE [result |-> TRUE,
          sub |-> [sub EXCEPT !.subscribed_user_ids = Append(@, user_id)],
          saved |-> TRUE]

\* add_user without the capacity test.
add_user_nocap(sub, user_id) ==
    IF is_user_subscribed(sub, user_id)
    THEN [result |-> TRUE, sub |-> sub, saved |-> FALSE]
    ELSE [result |-> TRUE,
          sub |-> [sub EXCEPT !.subscribed_user_ids = Append(@, user_id)],
          saved |-> TRUE]

\* Subscription.add_user on the copy `sub`: the value returned, the copy
\* afterwards, and whether save() was called.
add_user(sub, user_id) ==
    IF sub.max_users # None /\ Len(sub.subscribed_user_ids) >= sub.max_users[1]
    THEN [result |-> FALSE, sub |-> sub, saved |-> FALSE]
    ELSE IF is_user_subscribed(sub, user_id)
    THEN [result |-> TRUE, sub |-> sub, saved |-> FALSE]
    ELSE [result |-> TRUE,
          sub |-> [sub EXCEPT !.subscribed_user_ids = Append(@, user_id)],
          saved |-> TRUE]

\* Subscription.remove_user on the copy `sub`.
remove_user(sub, user_id) ==
    IF InList(user_id, sub.subscribed_user_ids)
    THEN [result |-> TRUE,
          sub |-> [sub EXCEPT !.subscribed_user_ids = ListRemove(@, user_id)],
          saved |-> TRUE]
    ELSE [result |-> FALSE, sub |-> sub, saved |-> FALSE]

\* ------------------------------------------------------------- models/tenant.py

\* Tenant.find_one({"_id": id}).
Tenant_find_one(id) ==
    IF id \in DOMAIN tenants THEN Some(tenants[id]) ELSE None

\* Tenant.find_one({"domain": domain}): the id of a stored tenant with that
\* domain (the first in id order), or None.
Tenant_find_by_domain(domain) ==
    LET hits == {t \in DOMAIN tenants : tenants[t].domain = domain}
    IN  IF hits = {} THEN None
        ELSE Some(CHOOSE t \in hits : \A x \in hits : t <= x)

\* Tenant.save on a collection without the unique index on domain.
Tenant_save_noindex(store, id, doc) ==
    [error |-> FALSE,
     store |-> [x \in DOMAIN store \cup {id} |-> IF x = id THEN doc ELSE store[x]]]

\* Tenant.save: replace_one({"_id": id}, to_dict(), upsert=True) on the
\* collection set_collection indexed with unique=True on domain: the write
\* raises DuplicateKeyError, and stores nothing, when another document holds
\* the domain.
Tenant_save(store, id, doc) ==
    IF \E x \in DOMAIN store : x # id /\ store[x].domain = doc.domain
    THEN [error |-> TRUE, store |-> store]
    ELSE [error |-> FALSE,
          store |-> [x \in DOMAIN store \cup {id} |-> IF x = id THEN doc ELSE store[x]]]

NewTenant(name, domain, owner_id) ==
    [name |-> name, domain |-> domain, owner_id |-> owner_id, is_active |-> TRUE]

\* Subscription.find({"tenant_id": id, "is_active": True}): the _ids found.
Subscription_find_active_of_tenant(tenant_id) ==
    {s \in DOMAIN subs : subs[s].tenant_id = tenant_id /\ subs[s].is_active = TRUE}

\* The membership test over every subscription of the tenant, active or not.
Tenant_is_user_subscribed_any(tenant_id, user_id) ==
    \E s \in {x \in DOMAIN subs : subs[x].tenant_id = tenant_id} :
        InList(user_id, subs[s].subscribed_user_ids)

\* Tenant.is_user_subscribed: the user is in the list of one of the tenant's
\* active subscriptions.
Tenant_is_user_subscribed(tenant_id, user_id) ==
    \E s \in Subscription_find_active_of_tenant(tenant_id) :
        InList(user_id, subs[s].subscribed_user_ids)

\* ---------------------------------------------------------- models/user.py
\* User.find_one({"_id": id}): a copy of the stored document, or None.
User_find_one(id) ==
    IF id \in DOMAIN users THEN Some(users[id]) ELSE None

\* User.find_one({"email": email}): the _id of a document with the email.
User_find_by_email(email) ==
    IF \E u \in DOMAIN users : users[u].email = email
    THEN Some(CHOOSE u \in DOMAIN users : users[u].email = email)
    ELSE None

\* A save into a collection that has no unique index on email.
User_save_noindex(store, id, doc) ==
    [error |-> FALSE,
     store |-> [k \in DOMAIN store \cup {id} |-> IF k = id THEN doc ELSE store[k]]]

\* User.save: replace_one(upsert=True) under the unique index on email; a
\* second document with the email raises DuplicateKeyError and stores nothing.
User_save(store, id, doc) ==
    IF \E k \in DOMAIN store : k # id /\ store[k].email = doc.email
    THEN [error |-> TRUE, store |-> store]
    ELSE [error |-> FALSE,
          store |-> [k \in DOMAIN store \cup {id} |-> IF k = id THEN doc ELSE store[k]]]

\* User(...): roles or ["user"].
NewUser(name, email, roles) ==
    [name |-> name, email |-> email, is_active |-> TRUE,
     roles |-> IF roles = None \/ roles[1] = {} THEN {"user"} ELSE roles[1]]

\* User.get_tenants: the subscriptions that are active and list the user,
\* their tenant_ids, and the stored tenants whose _id is among them ($in).
User_get_tenants(user_id) ==
    LET subscriptions == {s \in DOMAIN subs :
                             /\ InList(user_id, subs[s].subscribed_user_ids)
                             /\ subs[s].is_active = TRUE}
        tenant_ids == {subs[s].tenant_id : s \in subscriptions}
    IN  {t \in DOMAIN tenants : t \in tenant_ids}

\* ------------------------------------------------------------------ requests
Idle == [pc |-> "idle", op |-> "", caller |-> 0, id |-> 0, uid |-> 0,
         body |-> None, loc |-> None, resp |-> NoResp]

\* A worker is free to take the next request.
Free(p) == reqs[p].pc \in {"idle", "done"}

\* The handler returns (or raises HTTPException): the response is recorded
\* and the private copy and the request body are dropped.
Done(op, caller, id, uid, resp) ==
    [pc |-> "done", op |-> op, caller |-> caller, id |-> id, uid |-> uid,
     body |-> None, loc |-> None, resp |-> resp]

\* get_current_user: the token's subject resolves to a stored user.
Authenticated(c) == c \in DOMAIN users

IsAdmin(c) == "admin" \in users[c].roles

\* ObjectId(): an id no stored document has.
NewId(store, pool) == CHOOSE i \in pool \ DOMAIN store :
                          \A j \in pool \ DOMAIN store : i <= j

\* ------------------------------------------------- routes/subscription.py

\* A handler that keeps its request body once it has answered.
DoneWith(op, caller, id, body, resp) ==
    [pc |-> "done", op |-> op, caller |-> caller, id |-> id, uid |-> 0,
     body |-> Some(body), loc |-> None, resp |-> resp]

\* POST /subscriptions
create_subscription(p, c, tenant_id, plan, max_users) ==
    /\ Free(p)
    /\ Authenticated(c)
    /\ Cardinality(DOMAIN subs) < MaxSubs
    /\ LET tenant == Tenant_find_one(tenant_id)
           id == NewId(subs, SubIdPool)
           subscription == [tenant_id |-> tenant_id, plan |-> plan, max_users |-> max_users]
       IN  IF tenant = None
           THEN /\ reqs' = [reqs EXCEPT ![p] = DoneWith("create_subscription", c, 0,
                                subscription, Resp(404, "Tenant not found"))]
                /\ UNCHANGED subs
           ELSE IF tenant[1].owner_id # c
           THEN /\ reqs' = [reqs EXCEPT ![p] = DoneWith("create_subscription", c, 0,
                                subscription,
                                Resp(403, "Only the tenant owner can create subscriptions"))]
                /\ UNCHANGED subs
           ELSE /\ subs' = Subscription_save(subs, id,
                                NewSubscription(tenant_id, plan, max_users))
                /\ reqs' = [reqs EXCEPT ![p] = DoneWith("create_subscription", c, id,
                                subscription, Ok)]
    /\ UNCHANGED << users, tenants >>

\* GET /subscriptions: no caller check; the subscriptions that match the
\* tenant_id and is_active filters, each with its member count.
get_subscriptions(p, c, tenant_id, is_active) ==
    /\ Free(p)
    /\ LET subscriptions ==
               {s \in DOMAIN subs :
                   /\ tenant_id # None => subs[s].tenant_id = tenant_id[1]
                   /\ is_active # None => subs[s].is_active = is_active[1]}
       IN  reqs' = [reqs EXCEPT ![p] =
               DoneWith("get_subscriptions", c, 0,
                        {[id |-> s, tenant_id |-> subs[s].tenant_id,
                          plan |-> subs[s].plan, is_active |-> subs[s].is_active,
                          user_count |-> Len(subs[s].subscribed_user_ids),
                          max_users |-> subs[s].max_users] : s \in subscriptions},
                        Ok)]
    /\ UNCHANGED << users, tenants, subs >>

\* GET /subscriptions/{id}: no caller check; the document with its member
\* list.
get_subscription(p, c, subscription_id) ==
    /\ Free(p)
    /\ LET subscription == Subscription_find_one(subscription_id)
       IN  reqs' = [reqs EXCEPT ![p] =
               IF subscription = None
               THEN Done("get_subscription", c, subscription_id, 0,
                         Resp(404, "Subscription not found"))
               ELSE DoneWith("get_subscription", c, subscription_id,
                        [id |-> subscription_id,
                         tenant_id |-> subscription[1].tenant_id,
                         plan |-> subscription[1].plan,
                         is_active |-> subscription[1].is_active,
                         user_count |-> Len(subscription[1].subscribed_user_ids),
                         max_users |-> subscription[1].max_users,
                         subscribed_user_ids |-> subscription[1].subscribed_user_ids,
                         has_available_seats |-> has_available_seats(subscription[1])],
                        Ok)]
    /\ UNCHANGED << users, tenants, subs >>

\* POST /subscriptions/{id}/users, up to the first store read: find the
\* subscription and keep a copy.
add_user_to_subscription_find(p, c, subscription_id, user_id) ==
    /\ Free(p)
    /\ Authenticated(c)
    /\ LET subscription == Subscription_find_one(subscription_id)
       IN  IF subscription = None
           THEN reqs' = [reqs EXCEPT ![p] = Done("add_user", c, subscription_id, user_id,
                             Resp(404, "Subscription not found"))]
           ELSE reqs' = [reqs EXCEPT ![p] =
                             [pc |-> "add_user", op |-> "add_user", caller |-> c,
                              id |-> subscription_id, uid |-> user_id, body |-> None,
                              loc |-> subscription, resp |-> NoResp]]
    /\ UNCHANGED << users, tenants, subs >>

\* The rest of the handler with the admin role left out of the caller check.
add_user_to_subscription_rest_owner_only(c, sub, user_id) ==
    LET tenant == Tenant_find_one(sub.tenant_id)
        r == add_user(sub, user_id)
    IN  IF tenant = None
        THEN [resp |-> Resp(404, "Tenant not found"), save |-> None]
        ELSE IF tenant[1].owner_id # c
        THEN [resp |-> Resp(403, "Only the tenant owner can add users to this subscription"),
              save |-> None]
        ELSE IF user_id \notin DOMAIN users
        THEN [resp |-> Resp(404, "User not found"), save |-> None]
        ELSE IF is_user_subscribed(sub, user_id)
        THEN [resp |-> Resp(400, "User is already subscribed"), save |-> None]
        ELSE IF ~r.result
        THEN [resp |-> Resp(400, "Subscription is at maximum capacity"), save |-> None]
        ELSE [resp |-> Ok, save |-> IF r.saved THEN Some(r.sub) ELSE None]

\* The rest of the handler without the lookup of the user to admit.
add_user_to_subscription_rest_any_user(c, sub, user_id) ==
    LET tenant == Tenant_find_one(sub.tenant_id)
        r == add_user(sub, user_id)
    IN  IF tenant = None
        THEN [resp |-> Resp(404, "Tenant not found"), save |-> None]
        ELSE IF tenant[1].owner_id # c /\ ~IsAdmin(c)
        THEN [resp |-> Resp(403, "Only the tenant owner can add users to this subscription"),
              save |-> None]
        ELSE IF is_user_subscribed(sub, user_id)
        THEN [resp |-> Resp(400, "User is already subscribed"), save |-> None]
        ELSE IF ~r.result
        THEN [resp |-> Resp(400, "Subscription is at maximum capacity"), save |-> None]
        ELSE [resp |-> Ok, save |-> IF r.saved THEN Some(r.sub) ELSE None]

\* The response of the rest of the handler and the document it saves, if any,
\* for caller c holding the copy `sub` of subscription_id.
add_user_to_subscription_rest(c, sub, user_id) ==
    LET tenant == Tenant_find_one(sub.tenant_id)
        r == add_user(sub, user_id)
    IN  IF tenant = None
        THEN [resp |-> Resp(404, "Tenant not found"), save |-> None]
        ELSE IF tenant[1].owner_id # c /\ ~IsAdmin(c)
        THEN [resp |-> Resp(403, "Only the tenant owner can add users to this subscription"),
              save |-> None]
        ELSE IF user_id \notin DOMAIN users
        THEN [resp |-> Resp(404, "User not found"), save |-> None]
        ELSE IF is_user_subscribed(sub, user_id)
        THEN [resp |-> Resp(400, "User is already subscribed"), save |-> None]
        ELSE IF ~r.result
        THEN [resp |-> Resp(400, "Subscription is at maximum capacity"), save |-> None]
        ELSE [resp |-> Ok, save |-> IF r.saved THEN Some(r.sub) ELSE None]

\* The store of a handler that appends and saves before it tests capacity.
add_user_to_subscription_store_append_first(store, c, subscription_id, sub, user_id) ==
    LET out == add_user_to_subscription_rest(c, sub, user_id)
    IN  IF out.resp = Resp(400, "Subscription is at maximum capacity")
        THEN Subscription_save(store, subscription_id,
                 [sub EXCEPT !.subscribed_user_ids = Append(@, user_id)])
        ELSE IF out.save = None THEN store
        ELSE Subscription_save(store, subscription_id, out.save[1])

\* The store after the rest of the handler has run on the copy `sub`.
add_user_to_subscription_store(store, c, subscription_id, sub, user_id) ==
    LET out == add_user_to_subscription_rest(c, sub, user_id)
    IN  IF out.save = None THEN store
        ELSE Subscription_save(store, subscription_id, out.save[1])

\* POST /subscriptions/{id}/users, from the tenant lookup to the end.
add_user_to_subscription(p) ==
    /\ reqs[p].pc = "add_user"
    /\ LET q == reqs[p]
           out == add_user_to_subscription_rest(q.caller, q.loc[1], q.uid)
       IN  /\ subs' = add_user_to_subscription_store(subs, q.caller, q.id, q.loc[1], q.uid)
           /\ reqs' = [reqs EXCEPT ![p] = Done("add_user", q.caller, q.id, q.uid, out.resp)]
    /\ UNCHANGED << users, tenants >>

\* DELETE /subscriptions/{id}/users/{user_id}, up to the first store read.
remove_user_from_subscription_find(p, c, subscription_id, user_id) ==
    /\ Free(p)
    /\ Authenticated(c)
    /\ LET subscription == Subscription_find_one(subscription_id)
       IN  IF subscription = None
           THEN reqs' = [reqs EXCEPT ![p] = Done("remove_user", c, subscription_id, user_id,
                             Resp(404, "Subscription not found"))]
           ELSE reqs' = [reqs EXCEPT ![p] =
                             [pc |-> "remove_user", op |-> "remove_user", caller |-> c,
                              id |-> subscription_id, uid |-> user_id, body |-> None,
                              loc |-> subscription, resp |-> NoResp]]
    /\ UNCHANGED << users, tenants, subs >>

remove_user_from_subscription_rest(c, sub, user_id) ==
    LET tenant == Tenant_find_one(sub.tenant_id)
        r == remove_user(sub, user_id)
    IN  IF tenant = None
        THEN [resp |-> Resp(404, "Tenant not found"), save |-> None]
        ELSE IF tenant[1].owner_id # c /\ ~IsAdmin(c)
        THEN [resp |-> Resp(403, "Only the tenant owner can remove users from this subscription"),
              save |-> None]
        ELSE IF ~r.result
        THEN [resp |-> Resp(400, "User is not subscribed"), save |-> None]
        ELSE [resp |-> Ok, save |-> IF r.saved THEN Some(r.sub) ELSE None]

\* DELETE /subscriptions/{id}/users/{user_id}, from the tenant lookup to the end.
remove_user_from_subscription(p) ==
    /\ reqs[p].pc = "remove_user"
    /\ LET q == reqs[p]
           out == remove_user_from_subscription_rest(q.caller, q.loc[1], q.uid)
       IN  /\ subs' = IF out.save = None THEN subs
                      ELSE Subscription_save(subs, q.id, out.save[1])
           /\ reqs' = [reqs EXCEPT ![p] = Done("remove_user", q.caller, q.id, q.uid, out.resp)]
    /\ UNCHANGED << users, tenants >>

\* PUT /subscriptions/{id}, up to the first store read.
update_subscription_find(p, c, subscription_id, subscription_update) ==
    /\ Free(p)
    /\ Authenticated(c)
    /\ LET existing_subscription == Subscription_find_one(subscription_id)
       IN  IF existing_subscription = None
           THEN reqs' = [reqs EXCEPT ![p] = Done("update_subscription", c, subscription_id, 0,
                             Resp(404, "Subscription not found"))]
           ELSE reqs' = [reqs EXCEPT ![p] =
                             [pc |-> "update_subscription", op |-> "update_subscription",
                              caller |-> c, id |-> subscription_id, uid |-> 0,
                              body |-> Some(subscription_update),
                              loc |-> existing_subscription, resp |-> NoResp]]
    /\ UNCHANGED << users, tenants, subs >>

\* An update that assigns every field of the body, the absent ones too.
SubscriptionUpdate_apply_all(sub, subscription_update) ==
    [sub EXCEPT
        !.plan = IF subscription_update.plan # None
                 THEN subscription_update.plan[1] ELSE @,
        !.is_active = IF subscription_update.is_active # None
                      THEN subscription_update.is_active[1] ELSE @,
        !.max_users = subscription_update.max_users]

\* The fields of the update that are not None, assigned to the copy.
SubscriptionUpdate_apply(sub, subscription_update) ==
    [sub EXCEPT
        !.plan = IF subscription_update.plan # None
                 THEN subscription_update.plan[1] ELSE @,
        !.is_active = IF subscription_update.is_active # None
                      THEN subscription_update.is_active[1] ELSE @,
        !.max_users = IF subscription_update.max_users # None
                      THEN subscription_update.max_users ELSE @]

\* The update with no check of the caller against the tenant's owner.
update_subscription_rest_anyone(c, sub, subscription_update) ==
    [resp |-> Ok, save |-> Some(SubscriptionUpdate_apply(sub, subscription_update))]

\* The response of the rest of the update handler and the document it saves.
update_subscription_rest(c, sub, subscription_update) ==
    LET tenant == Tenant_find_one(sub.tenant_id)
    IN  IF tenant = None
        THEN [resp |-> Resp(404, "Tenant not found"), save |-> None]
        ELSE IF tenant[1].owner_id # c
        THEN [resp |-> Resp(403, "Only the tenant owner can update this subscription"),
              save |-> None]
        ELSE [resp |-> Ok, save |-> Some(SubscriptionUpdate_apply(sub, subscription_update))]

\* PUT /subscriptions/{id}, from the tenant lookup to the end.
update_subscription(p) ==
    /\ reqs[p].pc = "update_subscription"
    /\ LET q == reqs[p]
           out == update_subscription_rest(q.caller, q.loc[1], q.body[1])
       IN  /\ subs' = IF out.save = None THEN subs
                      ELSE Subscription_save(subs, q.id, out.save[1])
           /\ reqs' = [reqs EXCEPT ![p] = Done("update_subscription", q.caller, q.id, 0,
                                               out.resp)]
    /\ UNCHANGED << users, tenants >>

\* GET /subscriptions/{id}/users: the members, for the tenant's owner or an
\* admin.
get_subscription_users(p, c, subscription_id) ==
    /\ Free(p)
    /\ Authenticated(c)
    /\ LET subscription == Subscription_find_one(subscription_id)
           tenant == Tenant_find_one(subscription[1].tenant_id)
       IN  reqs' = [reqs EXCEPT ![p] =
               IF subscription = None
               THEN Done("get_subscription_users", c, subscription_id, 0,
                         Resp(404, "Subscription not found"))
               ELSE IF tenant = None
               THEN Done("get_subscription_users", c, subscription_id, 0,
                         Resp(404, "Tenant not found"))
               ELSE IF tenant[1].owner_id # c /\ ~IsAdmin(c)
               THEN Done("get_subscription_users", c, subscription_id, 0,
                         Resp(403, "Only the tenant owner can retrieve subscribed users in this subscription."))
               ELSE Done("get_subscription_users", c, subscription_id, 0, Ok)]
    /\ UNCHANGED << users, tenants, subs >>

\* ------------------------------------------------------- routes/tenant.py

\* An exception no handler catches: the framework answers 500.
ServerError == Resp(500, "Internal Server Error")

\* POST /tenants, up to the domain lookup, without the comparison of owner_id
\* with the caller.
create_tenant_check_any_owner(p, c, tenant) ==
    /\ Free(p)
    /\ Authenticated(c)
    /\ Cardinality(DOMAIN tenants)
          + Cardinality({q \in Procs : reqs[q].pc = "create_tenant"}) < MaxTenants
    /\ IF tenant.owner_id \notin DOMAIN users
       THEN reqs' = [reqs EXCEPT ![p] = DoneWith("create_tenant", c, 0, tenant,
                         Resp(404, "Owner user not found"))]
       ELSE IF Tenant_find_by_domain(tenant.domain) # None
       THEN reqs' = [reqs EXCEPT ![p] = DoneWith("create_tenant", c, 0, tenant,
                         Resp(400, "A tenant with this domain already exists"))]
       ELSE reqs' = [reqs EXCEPT ![p] =
                         [pc |-> "create_tenant", op |-> "create_tenant", caller |-> c,
                          id |-> 0, uid |-> 0, body |-> Some(tenant), loc |-> None,
                          resp |-> NoResp]]
    /\ UNCHANGED << users, tenants, subs >>

\* POST /tenants, up to the domain lookup.
create_tenant_check(p, c, tenant) ==
    /\ Free(p)
    /\ Authenticated(c)
    /\ Cardinality(DOMAIN tenants)
          + Cardinality({q \in Procs : reqs[q].pc = "create_tenant"}) < MaxTenants
    /\ IF tenant.owner_id # c
       THEN reqs' = [reqs EXCEPT ![p] = DoneWith("create_tenant", c, 0, tenant,
                         Resp(403, "Unauthorized"))]
       ELSE IF tenant.owner_id \notin DOMAIN users
       THEN reqs' = [reqs EXCEPT ![p] = DoneWith("create_tenant", c, 0, tenant,
                         Resp(404, "Owner user not found"))]
       ELSE IF Tenant_find_by_domain(tenant.domain) # None
       THEN reqs' = [reqs EXCEPT ![p] = DoneWith("create_tenant", c, 0, tenant,
                         Resp(400, "A tenant with this domain already exists"))]
       ELSE reqs' = [reqs EXCEPT ![p] =
                         [pc |-> "create_tenant", op |-> "create_tenant", caller |-> c,
                          id |-> 0, uid |-> 0, body |-> Some(tenant), loc |-> None,
                          resp |-> NoResp]]
    /\ UNCHANGED << users, tenants, subs >>

\* POST /tenants: Tenant(...) and save.
create_tenant_save(p) ==
    /\ reqs[p].pc = "create_tenant"
    /\ LET q == reqs[p]
           id == NewId(tenants, TenantIdPool)
           w == Tenant_save(tenants, id,
                            NewTenant(q.body[1].name, q.body[1].domain, q.body[1].owner_id))
       IN  /\ tenants' = w.store
           /\ reqs' = [reqs EXCEPT ![p] =
                          IF w.error
                          THEN DoneWith("create_tenant", q.caller, 0, q.body[1], ServerError)
                          ELSE DoneWith("create_tenant", q.caller, id, q.body[1], Ok)]
    /\ UNCHANGED << users, subs >>

\* The fields of a TenantUpdate assigned after the domain lookup.
TenantUpdate_apply_rest(tenant, tenant_update) ==
    [tenant EXCEPT
        !.domain = IF tenant_update.domain # None THEN tenant_update.domain[1] ELSE @,
        !.is_active = IF tenant_update.is_active # None
                      THEN tenant_update.is_active[1] ELSE @]

\* PUT /tenants/{id}, up to the domain lookup: find the tenant, check the
\* owner, assign name; with no new domain to look up, assign the rest too.
update_tenant_find(p, c, tenant_id, tenant_update) ==
    /\ Free(p)
    /\ Authenticated(c)
    /\ LET existing_tenant == Tenant_find_one(tenant_id)
           named == [existing_tenant[1] EXCEPT
                        !.name = IF tenant_update.name # None
                                 THEN tenant_update.name[1] ELSE @]
       IN  IF existing_tenant = None
           THEN reqs' = [reqs EXCEPT ![p] = DoneWith("update_tenant", c, tenant_id,
                             tenant_update, Resp(404, "Tenant not found"))]
           ELSE IF existing_tenant[1].owner_id # c
           THEN reqs' = [reqs EXCEPT ![p] = DoneWith("update_tenant", c, tenant_id,
                             tenant_update, Resp(403, "Not authorized to update this tenant"))]
           ELSE IF tenant_update.domain # None
                   /\ tenant_update.domain[1] # existing_tenant[1].domain
           THEN reqs' = [reqs EXCEPT ![p] =
                             [pc |-> "update_tenant_domain", op |-> "update_tenant",
                              caller |-> c, id |-> tenant_id, uid |-> 0,
                              body |-> Some(tenant_update), loc |-> Some(named),
                              resp |-> NoResp]]
           ELSE reqs' = [reqs EXCEPT ![p] =
                             [pc |-> "update_tenant_save", op |-> "update_tenant",
                              caller |-> c, id |-> tenant_id, uid |-> 0,
                              body |-> Some(tenant_update),
                              loc |-> Some(TenantUpdate_apply_rest(named, tenant_update)),
                              resp |-> NoResp]]
    /\ UNCHANGED << users, tenants, subs >>

\* The domain lookup that finds no tenant in the way.
domain_in_use_never(domain, tenant_id) == FALSE

\* domain_check and str(domain_check._id) != tenant_id
domain_in_use(domain, tenant_id) ==
    LET domain_check == Tenant_find_by_domain(domain)
    IN  domain_check # None /\ domain_check[1] # tenant_id

\* PUT /tenants/{id}: the lookup of the new domain, and the fields after it.
update_tenant_domain(p) ==
    /\ reqs[p].pc = "update_tenant_domain"
    /\ LET q == reqs[p]
       IN  IF domain_in_use(q.body[1].domain[1], q.id)
           THEN reqs' = [reqs EXCEPT ![p] = DoneWith("update_tenant", q.caller, q.id,
                             q.body[1], Resp(400, "This domain is already in use"))]
           ELSE reqs' = [reqs EXCEPT ![p] =
                             [q EXCEPT !.pc = "update_tenant_save",
                                       !.loc = Some(TenantUpdate_apply_rest(q.loc[1], q.body[1]))]]
    /\ UNCHANGED << users, tenants, subs >>

\* PUT /tenants/{id}: save.
update_tenant_save(p) ==
    /\ reqs[p].pc = "update_tenant_save"
    /\ LET q == reqs[p]
           w == Tenant_save(tenants, q.id, q.loc[1])
       IN  /\ tenants' = w.store
           /\ reqs' = [reqs EXCEPT ![p] =
                          DoneWith("update_tenant", q.caller, q.id, q.body[1],
                                   IF w.error THEN ServerError ELSE Ok)]
    /\ UNCHANGED << users, subs >>

\* GET /tenants/{id}/users: the users subscribed to the tenant, for its owner.
get_tenant_users(p, c, tenant_id) ==
    /\ Free(p)
    /\ Authenticated(c)
    /\ LET tenant == Tenant_find_one(tenant_id)
       IN  reqs' = [reqs EXCEPT ![p] =
               IF tenant = None
               THEN Done("get_tenant_users", c, tenant_id, 0, Resp(404, "Tenant not found"))
               ELSE IF tenant[1].owner_id # c
               THEN Done("get_tenant_users", c, tenant_id, 0,
                         Resp(403, "Not authorized to update this tenant"))
               ELSE Done("get_tenant_users", c, tenant_id, 0, Ok)]
    /\ UNCHANGED << users, tenants, subs >>

\* tenant.is_user_subscribed(db, user_id) on a stored tenant: the answer is
\* kept with the request.
is_user_subscribed_call(p, tenant_id, user_id) ==
    /\ Free(p)
    /\ tenant_id \in DOMAIN tenants
    /\ reqs' = [reqs EXCEPT ![p] =
           DoneWith("is_user_subscribed", 0, tenant_id,
                    [user_id |-> user_id,
                     result |-> Tenant_is_user_subscribed(tenant_id, user_id)], Ok)]
    /\ UNCHANGED << users, tenants, subs >>

\* --------------------------------------------------------- routes/auth.py

\* POST /auth/token: authenticate_user finds the user by email and compares
\* the password hashes (password_ok: the hashes are equal); an inactive
\* account gets no token.
login_for_access_token(p, email, password_ok) ==
    /\ Free(p)
    /\ LET user == User_find_by_email(email)
       IN  reqs' = [reqs EXCEPT ![p] =
               IF user = None \/ ~password_ok
               THEN DoneWith("login", 0, 0, [email |-> email],
                             Resp(401, "Incorrect email or password"))
               ELSE IF ~users[user[1]].is_active
               THEN DoneWith("login", 0, user[1], [email |-> email],
                             Resp(401, "User account is inactive"))
               ELSE DoneWith("login", 0, user[1], [email |-> email], Ok)]
    /\ UNCHANGED << users, tenants, subs >>

\* --------------------------------------------------------- routes/user.py

\* GET /users/{id}: the caller's own record only; the record is looked up
\* after the caller has been checked.
get_user(p, c, user_id) ==
    /\ Free(p)
    /\ Authenticated(c)
    /\ reqs' = [reqs EXCEPT ![p] =
           IF user_id # c
           THEN Done("get_user", c, user_id, 0,
                     Resp(403, "Not authorized to access this user data"))
           ELSE IF User_find_one(user_id) = None
           THEN Done("get_user", c, user_id, 0, Resp(404, "User not found"))
           ELSE Done("get_user", c, user_id, 0, Ok)]
    /\ UNCHANGED << users, tenants, subs >>

\* GET /users/{id}/tenants: the tenants the caller is subscribed with.
get_user_tenants(p, c, user_id) ==
    /\ Free(p)
    /\ Authenticated(c)
    /\ reqs' = [reqs EXCEPT ![p] =
           IF user_id # c
           THEN DoneWith("get_user_tenants", c, user_id, [result |-> {}],
                         Resp(403, "Not authorized to access this information"))
           ELSE IF User_find_one(user_id) = None
           THEN DoneWith("get_user_tenants", c, user_id, [result |-> {}],
                         Resp(404, "User not found"))
           ELSE DoneWith("get_user_tenants", c, user_id,
                         [result |-> User_get_tenants(user_id)], Ok)]
    /\ UNCHANGED << users, tenants, subs >>

\* POST /users, up to the email lookup; the route takes no credentials.
create_user_check(p, user) ==
    /\ Free(p)
    /\ Cardinality(DOMAIN users)
          + Cardinality({q \in Procs : reqs[q].pc = "create_user"}) < MaxUsers
    /\ IF User_find_by_email(user.email) # None
       THEN reqs' = [reqs EXCEPT ![p] = DoneWith("create_user", 0, 0, user,
                         Resp(400, "A user with this email already exists"))]
       ELSE reqs' = [reqs EXCEPT ![p] =
                         [pc |-> "create_user", op |-> "create_user", caller |-> 0,
                          id |-> 0, uid |-> 0, body |-> Some(user), loc |-> None,
                          resp |-> NoResp]]
    /\ UNCHANGED << users, tenants, subs >>

\* POST /users: User(...) and save.
create_user_save(p) ==
    /\ reqs[p].pc = "create_user"
    /\ LET q == reqs[p]
           id == NewId(users, NewUserIdPool)
           w == User_save(users, id,
                          NewUser(q.body[1].name, q.body[1].email, q.body[1].roles))
       IN  /\ users' = w.store
           /\ reqs' = [reqs EXCEPT ![p] =
                          IF w.error
                          THEN DoneWith("create_user", 0, 0, q.body[1], ServerError)
                          ELSE DoneWith("create_user", 0, id, q.body[1], Ok)]
    /\ UNCHANGED << tenants, subs >>

\* The fields of a UserUpdate assigned after the email lookup.
UserUpdate_apply_rest(user, user_update) ==
    [user EXCEPT
        !.email = IF user_update.email # None THEN user_update.email[1] ELSE @,
        !.is_active = IF user_update.is_active # None
                      THEN user_update.is_active[1] ELSE @,
        !.roles = IF user_update.roles # None THEN user_update.roles[1] ELSE @]

\* PUT /users/{id}, up to the email lookup: check the caller, find the user,
\* assign name; with no new email to look up, assign the rest too.
update_user_find(p, c, user_id, user_update) ==
    /\ Free(p)
    /\ Authenticated(c)
    /\ LET existing_user == User_find_one(user_id)
           named == [existing_user[1] EXCEPT
                        !.name = IF user_update.name # None
                                 THEN user_update.name[1] ELSE @]
       IN  IF user_id # c \/ ~IsAdmin(c)
           THEN reqs' = [reqs EXCEPT ![p] = DoneWith("update_user", c, user_id,
                             user_update, Resp(403, "Not authorized to update this user"))]
           ELSE IF existing_user = None
           THEN reqs' = [reqs EXCEPT ![p] = DoneWith("update_user", c, user_id,
                             user_update, Resp(404, "User not found"))]
           ELSE IF user_update.email # None
                   /\ user_update.email[1] # existing_user[1].email
           THEN reqs' = [reqs EXCEPT ![p] =
                             [pc |-> "update_user_email", op |-> "update_user",
                              caller |-> c, id |-> user_id, uid |-> 0,
                              body |-> Some(user_update), loc |-> Some(named),
                              resp |-> NoResp]]
           ELSE reqs' = [reqs EXCEPT ![p] =
                             [pc |-> "update_user_save", op |-> "update_user",
                              caller |-> c, id |-> user_id, uid |-> 0,
                              body |-> Some(user_update),
                              loc |-> Some(UserUpdate_apply_rest(named, user_update)),
                              resp |-> NoResp]]
    /\ UNCHANGED << users, tenants, subs >>

\* email_check and str(email_check._id) != user_id
email_in_use(email, user_id) ==
    LET email_check == User_find_by_email(email)
    IN  email_check # None /\ email_check[1] # user_id

\* PUT /users/{id}: the lookup of the new email, and the fields after it.
update_user_email(p) ==
    /\ reqs[p].pc = "update_user_email"
    /\ LET q == reqs[p]
       IN  IF email_in_use(q.body[1].email[1], q.id)
           THEN reqs' = [reqs EXCEPT ![p] = DoneWith("update_user", q.caller, q.id,
                             q.body[1], Resp(400, "This email is already in use"))]
           ELSE reqs' = [reqs EXCEPT ![p] =
                             [q EXCEPT !.pc = "update_user_save",
                                       !.loc = Some(UserUpdate_apply_rest(q.loc[1], q.body[1]))]]
    /\ UNCHANGED << users, tenants, subs >>

\* PUT /users/{id}: save.
update_user_save(p) ==
    /\ reqs[p].pc = "update_user_save"
    /\ LET q == reqs[p]
           w == User_save(users, q.id, q.loc[1])
       IN  /\ users' = w.store
           /\ reqs' = [reqs EXCEPT ![p] =
                          DoneWith("update_user", q.caller, q.id, q.body[1],
                                   IF w.error THEN ServerError ELSE Ok)]
    /\ UNCHANGED << tenants, subs >>

\* ------------------------------------------------------------- initial states
\* Three registered users (3 is an admin) and tenant 1, owned by user 1: the
\* store after three POST /users and one POST /tenants.
SeedUsers ==
    [u \in {1, 2, 3} |->
        [name |-> IF u = 1 THEN "Ann" ELSE IF u = 2 THEN "Bob" ELSE "Cy",
         email |-> IF u = 1 THEN "a@x.io" ELSE IF u = 2 THEN "b@x.io" ELSE "c@x.io",
         is_active |-> TRUE,
         roles |-> IF u = 3 THEN {"user", "admin"} ELSE {"user"}]]

SeedTenants ==
    [t \in {1} |-> [name |-> "Acme", domain |-> "acme.co", owner_id |-> 1,
                    is_active |-> TRUE]]

LedgerInit ==
    /\ users = SeedUsers
    /\ tenants = SeedTenants
    /\ subs = << >>
    /\ reqs = [p \in Procs |-> Idle]

\* ------------------------------------------------------------ specifications
\* Seat admission and release, one request at a time.
SeatNext ==
    \E p \in SeqProcs :
        \/ \E c \in DOMAIN users, t \in TenantIdPool, m \in MaxUsersInputs :
               create_subscription(p, c, t, "basic", m)
        \/ \E c \in DOMAIN users, s \in SubIdPool, u \in UserIdPool :
               add_user_to_subscription_find(p, c, s, u)
        \/ add_user_to_subscription(p)
        \/ \E c \in DOMAIN users, s \in SubIdPool, u \in UserIdPool :
               remove_user_from_subscription_find(p, c, s, u)
        \/ remove_user_from_subscription(p)

SeatSpec == LedgerInit /\ [][SeatNext]_vars

\* Every subscription request, one request at a time.
LedgerSeqNext ==
    \E p \in SeqProcs :
        \/ \E c \in DOMAIN users, t \in TenantIdPool, m \in MaxUsersInputs :
               create_subscription(p, c, t, "basic", m)
        \/ \E c \in DOMAIN users, s \in SubIdPool, u \in UserIdPool :
               add_user_to_subscription_find(p, c, s, u)
        \/ add_user_to_subscription(p)
        \/ \E c \in DOMAIN users, s \in SubIdPool, u \in UserIdPool :
               remove_user_from_subscription_find(p, c, s, u)
        \/ remove_user_from_subscription(p)
        \/ \E c \in DOMAIN users, s \in SubIdPool, b \in SubUpdateInputs :
               update_subscription_find(p, c, s, b)
        \/ update_subscription(p)

LedgerSeqSpec == LedgerInit /\ [][LedgerSeqNext]_vars

\* Seat admission and release by concurrent requests.
RaceNext ==
    \E p \in Procs :
        \/ \E c \in RaceCallers, t \in TenantIdPool, m \in MaxUsersInputs :
               create_subscription(p, c, t, "basic", m)
        \/ \E c \in RaceCallers, s \in SubIdPool, u \in RaceUsers :
               add_user_to_subscription_find(p, c, s, u)
        \/ add_user_to_subscription(p)
        \/ \E c \in RaceCallers, s \in SubIdPool, u \in RaceUsers :
               remove_user_from_subscription_find(p, c, s, u)
        \/ remove_user_from_subscription(p)

RaceSpec == LedgerInit /\ [][RaceNext]_vars

\* Every subscription request, served concurrently.
LedgerNext ==
    \E p \in Procs :
        \/ \E c \in RaceCallers, t \in TenantIdPool, m \in MaxUsersInputs :
               create_subscription(p, c, t, "basic", m)
        \/ \E c \in RaceCallers, s \in SubIdPool, u \in LedgerUsers :
               add_user_to_subscription_find(p, c, s, u)
        \/ add_user_to_subscription(p)
        \/ \E c \in RaceCallers, s \in SubIdPool, u \in LedgerUsers :
               remove_user_from_subscription_find(p, c, s, u)
        \/ remove_user_from_subscription(p)
        \/ \E c \in RaceCallers, s \in SubIdPool, b \in CapUpdateInputs :
               update_subscription_find(p, c, s, b)
        \/ update_subscription(p)

LedgerSpec == LedgerInit /\ [][LedgerNext]_vars

\* The registered users and no tenant yet.
TenantInit ==
    /\ users = SeedUsers
    /\ tenants = << >>
    /\ subs = << >>
    /\ reqs = [p \in Procs |-> Idle]

\* Tenant requests, one at a time.
TenantSeqNext ==
    \E p \in SeqProcs :
        \/ \E c \in DOMAIN users, b \in TenantCreateInputs : create_tenant_check(p, c, b)
        \/ create_tenant_save(p)
        \/ \E c \in DOMAIN users, t \in TenantIdPool, b \in TenantUpdateInputs :
               update_tenant_find(p, c, t, b)
        \/ update_tenant_domain(p)
        \/ update_tenant_save(p)

TenantSeqSpec == TenantInit /\ [][TenantSeqNext]_vars

\* Tenant requests served concurrently.
TenantNext ==
    \E p \in Procs :
        \/ \E c \in RaceCallers, d \in Domains :
               create_tenant_check(p, c, [name |-> "Acme", domain |-> d, owner_id |-> c])
        \/ create_tenant_save(p)
        \/ \E c \in RaceCallers, t \in TenantIdPool, b \in DomainUpdateInputs :
               update_tenant_find(p, c, t, b)
        \/ update_tenant_domain(p)
        \/ update_tenant_save(p)

TenantSpec == TenantInit /\ [][TenantNext]_vars

\* User requests, one at a time.
UserSeqNext ==
    \E p \in SeqProcs :
        \/ \E c \in DOMAIN users, u \in NewUserIdPool : get_user(p, c, u)
        \/ \E b \in UserCreateInputs : create_user_check(p, b)
        \/ create_user_save(p)
        \/ \E c \in DOMAIN users, b \in UserUpdateInputs : update_user_find(p, c, c, b)
        \/ \E c \in DOMAIN users :
               \E u \in NewUserIdPool \ {c}, b \in EmailUpdateInputs :
                   update_user_find(p, c, u, b)
        \/ update_user_email(p)
        \/ update_user_save(p)

UserSeqSpec == TenantInit /\ [][UserSeqNext]_vars

\* User requests served concurrently.
UserNext ==
    \E p \in Procs :
        \/ \E b \in UserCreateInputs : create_user_check(p, b)
        \/ create_user_save(p)
        \/ \E c \in DOMAIN users, b \in EmailUpdateInputs : update_user_find(p, c, c, b)
        \/ update_user_email(p)
        \/ update_user_save(p)

UserSpec == TenantInit /\ [][UserNext]_vars

\* Every gated request of the three routers, one request at a time, on the
\* store that holds the registered users and tenant 1.
ApiSeqNext ==
    \E p \in SeqProcs :
        \/ \E c \in DOMAIN users, u \in GateTargets : get_user(p, c, u)
        \/ \E c \in DOMAIN users, u \in GateTargets, b \in GateUserUpdates :
               update_user_find(p, c, u, b)
        \/ update_user_email(p)
        \/ update_user_save(p)
        \/ \E c \in DOMAIN users, d \in Domains, o \in GateOwners :
               create_tenant_check(p, c, [name |-> "Acme", domain |-> d, owner_id |-> o])
        \/ create_tenant_save(p)
        \/ \E c \in DOMAIN users, t \in TenantIdPool, b \in GateTenantUpdates :
               update_tenant_find(p, c, t, b)
        \/ update_tenant_domain(p)
        \/ update_tenant_save(p)
        \/ \E c \in DOMAIN users, t \in TenantIdPool : get_tenant_users(p, c, t)
        \/ \E c \in DOMAIN users, t \in TenantIdPool, m \in GateCaps :
               create_subscription(p, c, t, "basic", m)
        \/ \E c \in DOMAIN users, s \in SubIdPool, b \in GateSubUpdates :
               update_subscription_find(p, c, s, b)
        \/ update_subscription(p)
        \/ \E c \in DOMAIN users, s \in SubIdPool, u \in GateMembers :
               add_user_to_subscription_find(p, c, s, u)
        \/ add_user_to_subscription(p)
        \/ \E c \in DOMAIN users, s \in SubIdPool, u \in GateMembers :
               remove_user_from_subscription_find(p, c, s, u)
        \/ remove_user_from_subscription(p)
        \/ \E c \in DOMAIN users, s \in SubIdPool : get_subscription_users(p, c, s)

ApiSeqSpec == LedgerInit /\ [][ApiSeqNext]_vars

\* The same with registration (POST /users) among the requests.
FullSeqNext ==
    \/ ApiSeqNext
    \/ \E p \in SeqProcs :
           \/ \E b \in GateUserCreates : create_user_check(p, b)
           \/ create_user_save(p)

FullSeqSpec == LedgerInit /\ [][FullSeqNext]_vars

\* Stores for the membership queries: tenant 1 of user 1 and tenant 2 of user
\* 2, and up to MaxQuerySubs subscriptions of either tenant, active or
\* deactivated, that list users 2 and 3.
QueryTenants ==
    [t \in {1, 2} |-> [name |-> "Acme",
                       domain |-> IF t = 1 THEN "acme.co" ELSE "beta.io",
                       owner_id |-> t, is_active |-> TRUE]]

QueryMembers == {<< >>, <<2>>, <<3>>, <<2, 3>>}

QuerySubs ==
    {[NewSubscription(t, "basic", None) EXCEPT !.is_active = a,
                                                !.subscribed_user_ids = m] :
        t \in {1, 2}, a \in BOOLEAN, m \in QueryMembers}

QueryInit ==
    /\ users = SeedUsers
    /\ tenants = QueryTenants
    /\ \E n \in 0..MaxQuerySubs : subs \in [1..n -> QuerySubs]
    /\ reqs = [p \in Procs |-> Idle]

\* The membership queries, and the requests that change what they answer.
QueryNext ==
    \E p \in SeqProcs :
        \/ \E t \in TenantIdPool, u \in UserIdPool : is_user_subscribed_call(p, t, u)
        \/ \E c \in DOMAIN users, u \in {2, 3} : get_user_tenants(p, c, u)
        \/ \E c \in {1, 2}, s \in 1..MaxQuerySubs :
               update_subscription_find(p, c, s,
                   [plan |-> None, is_active |-> Some(FALSE), max_users |-> None])
        \/ update_subscription(p)
        \/ \E c \in {1, 2}, s \in 1..MaxQuerySubs :
               remove_user_from_subscription_find(p, c, s, 2)
        \/ remove_user_from_subscription(p)

QuerySpec == QueryInit /\ [][QueryNext]_vars

\* Accounts: registration, login, reading and updating one's own record, and
\* registering a tenant, one request at a time.
AccountNext ==
    \E p \in SeqProcs :
        \/ \E e \in Emails \cup {"c@x.io"}, ok \in BOOLEAN :
               login_for_access_token(p, e, ok)
        \/ \E b \in UserCreateInputs : create_user_check(p, b)
        \/ create_user_save(p)
        \/ \E c \in DOMAIN users : get_user(p, c, c)
        \/ \E c \in DOMAIN users, b \in AccountUpdateInputs : update_user_find(p, c, c, b)
        \/ update_user_save(p)
        \/ \E c \in DOMAIN users, d \in Domains, o \in DOMAIN users \cup {MaxUsers} :
               create_tenant_check(p, c, [name |-> "Acme", domain |-> d, owner_id |-> o])
        \/ create_tenant_save(p)

AccountSpec == TenantInit /\ [][AccountNext]_vars


\* Tenant registration, user registration and the membership routes served
\* concurrently, on the store that holds the registered users and tenant 1.
FailureNext ==
    \E p \in Procs :
        \/ \E d \in Domains :
               create_tenant_check(p, 2, [name |-> "Beta", domain |-> d, owner_id |-> 2])
        \/ create_tenant_save(p)
        \/ \E b \in UserCreateInputs : create_user_check(p, b)
        \/ create_user_save(p)
        \/ create_subscription(p, 1, 1, "basic", Some(1))
        \/ \E s \in SubIdPool, u \in LedgerUsers : add_user_to_subscription_find(p, 1, s, u)
        \/ add_user_to_subscription(p)
        \/ \E s \in SubIdPool, u \in LedgerUsers :
               remove_user_from_subscription_find(p, 1, s, u)
        \/ remove_user_from_subscription(p)

FailureSpec == LedgerInit /\ [][FailureNext]_vars

\* The callers of the routes that take no token: nobody (0) or a stored user.
AnyCaller == {0} \cup {1, 2, 3}

\* The read-only routes that report on subscriptions and their members, one
\* request at a time, on the stores of the membership queries.
DisclosureNext ==
    \E p \in SeqProcs :
        \/ \E c \in AnyCaller, t \in {None, Some(1)}, a \in {None, Some(TRUE)} :
               get_subscriptions(p, c, t, a)
        \/ \E c \in AnyCaller, s \in 1..MaxQuerySubs : get_subscription(p, c, s)
        \/ \E c \in DOMAIN users, s \in 1..MaxQuerySubs : get_subscription_users(p, c, s)
        \/ \E c \in DOMAIN users, t \in TenantIdPool : get_tenant_users(p, c, t)

DisclosureSpec == QueryInit /\ [][DisclosureNext]_vars

\* ===================================================================== claims
\* The failure kinds of the subscription routes, as the handlers report them.
CapacityExceeded == Resp(400, "Subscription is at maximum capacity")
AlreadySubscribed == Resp(400, "User is already subscribed")
NotSubscribed == Resp(400, "User is not subscribed")

WithinCapacity(sub) ==
    sub.max_users # None => Len(sub.subscribed_user_ids) <= sub.max_users[1]

\* The caller passes the owner-or-admin gate of the membership routes.
MayManageSeats(c, sub) ==
    /\ sub.tenant_id \in DOMAIN tenants
    /\ tenants[sub.tenant_id].owner_id = c \/ "admin" \in users[c].roles

\* Worker p finishes an add-member (remove-member, update) request in this step.
AddCompletes(p) == reqs[p].pc = "add_user" /\ reqs'[p].pc = "done"
RemoveCompletes(p) == reqs[p].pc = "remove_user" /\ reqs'[p].pc = "done"
UpdateCompletes(p) == reqs[p].pc = "update_subscription" /\ reqs'[p].pc = "done"

C2_AdmissionIffSeatAvailable ==
    [][/\ \A s \in DOMAIN subs :
             has_available_seats(subs[s]) <=>
                 \/ subs[s].max_users = None
                 \/ Len(subs[s].subscribed_user_ids) < subs[s].max_users[1]
       /\ \A p \in Procs :
          (/\ AddCompletes(p)
           /\ MayManageSeats(reqs[p].caller, subs[reqs[p].id])
           /\ reqs[p].uid \in DOMAIN users
           /\ ~InList(reqs[p].uid, subs[reqs[p].id].subscribed_user_ids))
          => IF has_available_seats(subs[reqs[p].id])
             THEN /\ reqs'[p].resp = Ok
                  /\ subs' = [subs EXCEPT ![reqs[p].id].subscribed_user_ids =
                                              Append(@, reqs[p].uid)]
             ELSE /\ reqs'[p].resp = CapacityExceeded
                  /\ subs' = subs]_vars

\* The third distinct admission to a subscription of two seats was refused.
C2_Witness ==
    \E s \in DOMAIN subs :
        /\ subs[s].max_users = Some(2)
        /\ Len(subs[s].subscribed_user_ids) = 2
        /\ reqs["p1"].op = "add_user" /\ reqs["p1"].id = s
        /\ ~InList(reqs["p1"].uid, subs[s].subscribed_user_ids)
        /\ reqs["p1"].resp = CapacityExceeded

\* C3: no stored subscription lists a user id twice, whatever the
\* interleaving of add-member, remove-member and update requests.
C3_NoDuplicateMembers ==
    \A s \in DOMAIN subs :
        \A i, j \in 1..Len(subs[s].subscribed_user_ids) :
            i # j => subs[s].subscribed_user_ids[i] # subs[s].subscribed_user_ids[j]

\* Two requests admitted the same user to the same subscription, both from a
\* copy read before either wrote, and both succeeded.
C3_Witness ==
    /\ reqs["p1"].op = "add_user" /\ reqs["p1"].resp = Ok
    /\ reqs["p2"].op = "add_user" /\ reqs["p2"].resp = Ok
    /\ reqs["p1"].id = reqs["p2"].id /\ reqs["p1"].uid = reqs["p2"].uid
    /\ reqs["p1"].id \in DOMAIN subs
    /\ InList(reqs["p1"].uid, subs[reqs["p1"].id].subscribed_user_ids)

\* C4: re-adding a member reports success and changes nothing, and
\* CapacityExceeded is reported only for a non-member of a subscription whose
\* member count equals max_users.
C4_ReaddingMemberSucceeds ==
    [][\A p \in Procs :
          (/\ AddCompletes(p)
           /\ MayManageSeats(reqs[p].caller, subs[reqs[p].id])
           /\ reqs[p].uid \in DOMAIN users)
          => /\ InList(reqs[p].uid, subs[reqs[p].id].subscribed_user_ids)
                  => reqs'[p].resp = Ok /\ subs' = subs
             /\ reqs'[p].resp = CapacityExceeded
                  => /\ subs[reqs[p].id].max_users # None
                     /\ Len(subs[reqs[p].id].subscribed_user_ids)
                            = subs[reqs[p].id].max_users[1]
                     /\ ~InList(reqs[p].uid, subs[reqs[p].id].subscribed_user_ids)]_vars

\* The stored subscriptions after a whole add-member request served alone.
AddRequest(store, c, s, u) ==
    IF s \in DOMAIN store
    THEN add_user_to_subscription_store(store, c, s, store[s], u)
    ELSE store

\* C5: on a subscription that is not full, serving the same add-member request
\* twice in a row leaves the same stored membership as serving it once.
C5_AddUserIdempotent ==
    \A c \in DOMAIN users, s \in DOMAIN subs, u \in UserIdPool :
        has_available_seats(subs[s]) =>
            AddRequest(AddRequest(subs, c, s, u), c, s, u) = AddRequest(subs, c, s, u)

\* A repeated admission was answered on a subscription that still has seats:
\* the user is stored once.
C5_Witness ==
    \E s \in DOMAIN subs :
        /\ reqs["p1"].op = "add_user" /\ reqs["p1"].id = s
        /\ reqs["p1"].resp = AlreadySubscribed
        /\ has_available_seats(subs[s])
        /\ Cardinality({i \in 1..Len(subs[s].subscribed_user_ids) :
                           subs[s].subscribed_user_ids[i] = reqs["p1"].uid}) = 1

\* C6: removing a user who is not a member is answered without an error and
\* leaves the store unchanged; removing a member removes exactly that user.
C6_RemoveAbsentIsNoError ==
    [][\A p \in Procs :
          (/\ RemoveCompletes(p)
           /\ MayManageSeats(reqs[p].caller, subs[reqs[p].id]))
          => IF InList(reqs[p].uid, subs[reqs[p].id].subscribed_user_ids)
             THEN /\ reqs'[p].resp = Ok
                  /\ subs' = [subs EXCEPT ![reqs[p].id].subscribed_user_ids =
                                              ListRemove(@, reqs[p].uid)]
             ELSE /\ reqs'[p].resp.status < 400
                  /\ subs' = subs]_vars

\* C7 as claimed: with updates among the requests, every stored subscription
\* with max_users set has at most max_users members.
C7_CapacityUnderUpdates ==
    \A s \in DOMAIN subs : WithinCapacity(subs[s])

\* Worker p finishes, in this step, an update of s that sets max_users below
\* the stored member count.
LoweringUpdate(p, s) ==
    /\ UpdateCompletes(p)
    /\ reqs[p].id = s
    /\ reqs[p].body[1].max_users # None
    /\ reqs[p].body[1].max_users[1] < Len(subs[s].subscribed_user_ids)

\* C7 as amended: a step takes a subscription from within its capacity to
\* over it only if the step is an update that sets max_users below the member
\* count; creation and every other request keep it within capacity.
C7_OnlyLoweringUpdateExceeds ==
    [][\A s \in DOMAIN subs' :
          (/\ s \in DOMAIN subs => WithinCapacity(subs[s])
           /\ ~ \E p \in Procs : s \in DOMAIN subs /\ LoweringUpdate(p, s))
          => WithinCapacity(subs'[s])]_vars

\* An accepted update left a subscription with more members than max_users.
C7_Witness ==
    \E s \in DOMAIN subs :
        /\ ~WithinCapacity(subs[s])
        /\ reqs["p1"].op = "update_subscription" /\ reqs["p1"].id = s
        /\ reqs["p1"].resp = Ok

\* Worker q is about to write an admission from a copy read before worker p's
\* admission was stored: the last seat was free in the copy and is taken in
\* the store.
RacePending(p, q) ==
    /\ p # q
    /\ reqs[p].pc = "done" /\ reqs[p].op = "add_user" /\ reqs[p].resp = Ok
    /\ reqs[q].pc = "add_user"
    /\ reqs[q].id = reqs[p].id /\ reqs[q].uid # reqs[p].uid
    /\ MayManageSeats(reqs[q].caller, reqs[q].loc[1])
    /\ LET stored == subs[reqs[q].id]
           copy == reqs[q].loc[1]
       IN  /\ stored.max_users # None
           /\ Len(stored.subscribed_user_ids) = stored.max_users[1]
           /\ Len(copy.subscribed_user_ids) + 1 = stored.max_users[1]
           /\ InList(reqs[p].uid, stored.subscribed_user_ids)
           /\ ~InList(reqs[p].uid, copy.subscribed_user_ids)
           /\ ~InList(reqs[q].uid, copy.subscribed_user_ids)

\* C8 as claimed: when two admissions of distinct non-members interleave at
\* the last seat, the later write leaves more members stored than max_users.
C8_RaceExceedsCapacity ==
    [][\A p, q \in Procs :
          (RacePending(p, q) /\ AddCompletes(q))
          => ~WithinCapacity(subs'[reqs[q].id])]_vars

\* C8 as amended: under interleaved admissions and releases the stored member
\* count never exceeds max_users; the later write of a race replaces the
\* document by its own copy plus its user, so the earlier admission, already
\* answered with success, is no longer stored.
C8_RaceLosesAdmission ==
    [][/\ \A s \in DOMAIN subs' : WithinCapacity(subs'[s])
       /\ \A p, q \in Procs :
             (RacePending(p, q) /\ AddCompletes(q))
             => /\ reqs'[q].resp = Ok
                /\ subs'[reqs[q].id].subscribed_user_ids
                       = Append(reqs[q].loc[1].subscribed_user_ids, reqs[q].uid)
                /\ ~InList(reqs[p].uid, subs'[reqs[q].id].subscribed_user_ids)]_vars

\* One admission of a race at the last seat is stored and answered, and the
\* other is about to be written from its stale copy.
C8_Witness == \E p, q \in Procs : RacePending(p, q)

\* The uniqueness failures of the tenant routes, as the handlers report them.
DomainConflict ==
    {Resp(400, "A tenant with this domain already exists"),
     Resp(400, "This domain is already in use")}

\* C9: no two stored tenants, active or not, have the same domain, whatever
\* the interleaving of create-tenant and update-tenant requests.
C9_DomainUnique ==
    \A t1, t2 \in DOMAIN tenants :
        t1 # t2 => tenants[t1].domain # tenants[t2].domain

\* A create-tenant request passed the domain lookup, lost the race for the
\* domain to another write, and its save was refused by the unique index.
C9_Witness ==
    \E p \in Procs :
        /\ reqs[p].op = "create_tenant"
        /\ reqs[p].resp = ServerError
        /\ \E t \in DOMAIN tenants : tenants[t].domain = reqs[p].body[1].domain

\* Worker p takes a create-tenant (update-tenant) request in this step.
CreateTenantArrives(p) ==
    Free(p) /\ reqs'[p] # reqs[p] /\ reqs'[p].op = "create_tenant"
UpdateTenantArrives(p) ==
    Free(p) /\ reqs'[p] # reqs[p] /\ reqs'[p].op = "update_tenant"

\* Some tenant other than `self` holds the domain.
DomainTaken(domain, self) ==
    \E t \in DOMAIN tenants : t # self /\ tenants[t].domain = domain

\* C10: with requests served one at a time, creating a tenant (as its owner)
\* under a registered domain, or moving one's tenant to a domain another tenant
\* holds, is answered Conflict and changes no stored tenant, the fields
\* assigned before the domain lookup included; an update that supplies the
\* tenant's own domain is answered with success and stores the other fields.
C10_DomainConflictLeavesStore ==
    [][\A p \in Procs :
          /\ (/\ CreateTenantArrives(p)
              /\ reqs'[p].body[1].owner_id = reqs'[p].caller
              /\ DomainTaken(reqs'[p].body[1].domain, 0))
             => /\ reqs'[p].pc = "done"
                /\ reqs'[p].resp \in DomainConflict
                /\ tenants' = tenants
          /\ (/\ UpdateTenantArrives(p)
              /\ reqs'[p].id \in DOMAIN tenants
              /\ tenants[reqs'[p].id].owner_id = reqs'[p].caller
              /\ reqs'[p].body[1].domain # None
              /\ DomainTaken(reqs'[p].body[1].domain[1], reqs'[p].id))
             => reqs'[p].pc = "update_tenant_domain"
          /\ (/\ reqs[p].pc = "update_tenant_domain"
              /\ reqs'[p] # reqs[p]
              /\ DomainTaken(reqs[p].body[1].domain[1], reqs[p].id))
             => /\ reqs'[p].pc = "done"
                /\ reqs'[p].resp \in DomainConflict
                /\ tenants' = tenants
          /\ (/\ reqs[p].pc = "update_tenant_save"
              /\ reqs'[p] # reqs[p]
              /\ reqs[p].body[1].domain = Some(tenants[reqs[p].id].domain))
             => /\ reqs'[p].resp = Ok
                /\ tenants' = [tenants EXCEPT ![reqs[p].id] =
                      [@ EXCEPT
                          !.name = IF reqs[p].body[1].name # None
                                   THEN reqs[p].body[1].name[1] ELSE @,
                          !.is_active = IF reqs[p].body[1].is_active # None
                                        THEN reqs[p].body[1].is_active[1] ELSE @]]]_vars

\* An update that supplied a new name and a domain held by another tenant was
\* answered Conflict, and the stored tenant keeps its old name.
C10_Witness ==
    \E p \in Procs :
        /\ reqs[p].op = "update_tenant" /\ reqs[p].pc = "done"
        /\ reqs[p].resp \in DomainConflict
        /\ reqs[p].body[1].name = Some("Renamed")
        /\ tenants[reqs[p].id].name # "Renamed"
        /\ DomainTaken(reqs[p].body[1].domain[1], reqs[p].id)

EmailConflict ==
    {Resp(400, "A user with this email already exists"),
     Resp(400, "This email is already in use")}

CreateUserArrives(p) ==
    Free(p) /\ reqs'[p] # reqs[p] /\ reqs'[p].op = "create_user"

\* Some user other than `self` holds the email.
EmailTaken(email, self) ==
    \E u \in DOMAIN users : u # self /\ users[u].email = email

\* C11: no two stored users ever share an email, however create-user and
\* update-user requests interleave; a create whose lookup finds the email
\* registered is answered Conflict and stores nothing, and an update whose
\* lookup finds the new email held by another user is answered Conflict and
\* leaves every stored user as it was, the name it had assigned included.
C11_EmailUnique ==
    [][/\ \A u, v \in DOMAIN users' :
             u # v => users'[u].email # users'[v].email
       /\ \A p \in Procs :
             /\ (CreateUserArrives(p) /\ EmailTaken(reqs'[p].body[1].email, 0))
                => /\ reqs'[p].pc = "done"
                   /\ reqs'[p].resp \in EmailConflict
                   /\ users' = users
             /\ (/\ reqs[p].pc = "update_user_email"
                 /\ reqs'[p] # reqs[p]
                 /\ EmailTaken(reqs[p].body[1].email[1], reqs[p].id))
                => /\ reqs'[p].pc = "done"
                   /\ reqs'[p].resp \in EmailConflict
                   /\ users' = users]_vars

\* An update that supplied a new name and an email held by another user was
\* answered Conflict, and the stored user keeps its name and its email.
C11_Witness ==
    \E p \in Procs :
        /\ reqs[p].pc = "done" /\ reqs[p].op = "update_user"
        /\ reqs[p].resp \in EmailConflict
        /\ reqs[p].body[1].name = Some("Renamed")
        /\ users[reqs[p].id].name # "Renamed"
        /\ users[reqs[p].id].email # reqs[p].body[1].email[1]
        /\ \E u \in DOMAIN users : u # reqs[p].id /\ users[u].email = reqs[p].body[1].email[1]

\* C12: a create-tenant request that passed the domain lookup and then finds,
\* when it writes, that a tenant with the domain has been stored meanwhile is
\* answered Conflict like a sequential duplicate, and the domain stays stored
\* exactly once.
C12_RaceLoserIsConflict ==
    [][\A p \in Procs :
          (/\ reqs[p].pc = "create_tenant"
           /\ reqs'[p].pc = "done"
           /\ DomainTaken(reqs[p].body[1].domain, 0))
          => /\ reqs'[p].resp \in DomainConflict
             /\ Cardinality({t \in DOMAIN tenants' :
                    tenants'[t].domain = reqs[p].body[1].domain}) = 1]_vars

Forbidden(resp) == resp.status = 403
NotFound(resp) == resp.status = 404

\* A request of kind op is taken up by worker p in this step.
Arrives(p, op) == Free(p) /\ reqs'[p] # reqs[p] /\ reqs'[p].op = op

\* Caller c neither owns tenant t nor is an admin.
Outsider(c, t) == tenants[t].owner_id # c /\ ~IsAdmin(c)

\* C13: a caller who is neither the owner of a stored tenant nor an admin, and
\* who asks to update the tenant, to create a subscription under it or to
\* update one of its subscriptions, is answered Forbidden, and no stored
\* tenant or subscription changes.
C13_OwnershipGate ==
    [][\A p \in Procs :
          /\ (/\ Arrives(p, "update_tenant")
              /\ reqs'[p].id \in DOMAIN tenants
              /\ Outsider(reqs'[p].caller, reqs'[p].id))
             => /\ reqs'[p].pc = "done" /\ Forbidden(reqs'[p].resp)
                /\ tenants' = tenants /\ subs' = subs
          /\ (/\ Arrives(p, "create_subscription")
              /\ reqs'[p].body[1].tenant_id \in DOMAIN tenants
              /\ Outsider(reqs'[p].caller, reqs'[p].body[1].tenant_id))
             => /\ reqs'[p].pc = "done" /\ Forbidden(reqs'[p].resp)
                /\ tenants' = tenants /\ subs' = subs
          /\ (/\ Arrives(p, "update_subscription")
              /\ reqs'[p].id \in DOMAIN subs
              /\ Outsider(reqs'[p].caller, subs[reqs'[p].id].tenant_id))
             => /\ reqs'[p].pc = "update_subscription"
                /\ tenants' = tenants /\ subs' = subs
          /\ (/\ reqs[p].pc = "update_subscription"
              /\ reqs'[p] # reqs[p]
              /\ Outsider(reqs[p].caller, reqs[p].loc[1].tenant_id))
             => /\ reqs'[p].pc = "done" /\ Forbidden(reqs'[p].resp)
                /\ tenants' = tenants /\ subs' = subs]_vars

\* A plain user who does not own tenant 1 asked to update a subscription of
\* tenant 1 and was answered Forbidden.
C13_Witness ==
    \E s \in DOMAIN subs :
        /\ reqs["p1"].pc = "done" /\ reqs["p1"].op = "update_subscription"
        /\ reqs["p1"].id = s
        /\ Outsider(reqs["p1"].caller, subs[s].tenant_id)
        /\ Forbidden(reqs["p1"].resp)

\* C14: on a stored subscription, an add-member or remove-member request by
\* an admin who does not own the tenant is not answered Forbidden and has the
\* response and the effect the owner's request would have; a caller who is
\* neither the owner nor an admin is answered Forbidden and nothing is stored.
C14_AdminManagesSeats ==
    [][\A p \in Procs :
          (/\ reqs[p].pc \in {"add_user", "remove_user"}
           /\ reqs'[p] # reqs[p]
           /\ reqs[p].loc[1].tenant_id \in DOMAIN tenants)
          => LET q == reqs[p]
                 owner == tenants[q.loc[1].tenant_id].owner_id
                 asOwner == IF q.pc = "add_user"
                            THEN add_user_to_subscription_rest(owner, q.loc[1], q.uid)
                            ELSE remove_user_from_subscription_rest(owner, q.loc[1], q.uid)
             IN  /\ IsAdmin(q.caller)
                    => /\ ~Forbidden(reqs'[p].resp)
                       /\ reqs'[p].resp = asOwner.resp
                       /\ subs' = IF asOwner.save = None THEN subs
                                  ELSE Subscription_save(subs, q.id, asOwner.save[1])
                 /\ Outsider(q.caller, q.loc[1].tenant_id)
                    => Forbidden(reqs'[p].resp) /\ subs' = subs]_vars

\* An admin who does not own the tenant admitted a user, and a user who is
\* neither owner nor admin can be refused on the same subscription.
C14_Witness ==
    \E s \in DOMAIN subs :
        /\ reqs["p1"].pc = "done" /\ reqs["p1"].op = "add_user" /\ reqs["p1"].id = s
        /\ IsAdmin(reqs["p1"].caller)
        /\ tenants[subs[s].tenant_id].owner_id # reqs["p1"].caller
        /\ reqs["p1"].resp = Ok
        /\ InList(reqs["p1"].uid, subs[s].subscribed_user_ids)

\* Caller c is an admin who does not own tenant t.
AdminNotOwner(c, t) == tenants[t].owner_id # c /\ IsAdmin(c)

\* C15: an admin who does not own a stored tenant is never answered Forbidden
\* when updating the tenant, listing its subscribed users, creating a
\* subscription under it or updating one of its subscriptions.
C15_AdminPassesOwnerGates ==
    [][\A p \in Procs :
          /\ (/\ Arrives(p, "update_tenant")
              /\ reqs'[p].id \in DOMAIN tenants
              /\ AdminNotOwner(reqs'[p].caller, reqs'[p].id))
             => ~Forbidden(reqs'[p].resp)
          /\ (/\ Arrives(p, "get_tenant_users")
              /\ reqs'[p].id \in DOMAIN tenants
              /\ AdminNotOwner(reqs'[p].caller, reqs'[p].id))
             => ~Forbidden(reqs'[p].resp)
          /\ (/\ Arrives(p, "create_subscription")
              /\ reqs'[p].body[1].tenant_id \in DOMAIN tenants
              /\ AdminNotOwner(reqs'[p].caller, reqs'[p].body[1].tenant_id))
             => ~Forbidden(reqs'[p].resp)
          /\ (/\ reqs[p].pc = "update_subscription"
              /\ reqs'[p] # reqs[p]
              /\ AdminNotOwner(reqs[p].caller, reqs[p].loc[1].tenant_id))
             => ~Forbidden(reqs'[p].resp)]_vars

\* C16: a caller who is neither the tenant's owner nor an admin is answered
\* Forbidden when listing the members of a subscription that does not list
\* them; once the subscription lists them, their request to list its members
\* succeeds, while their request to remove another member is still Forbidden.
C16_MemberMayRead ==
    [][\A p \in Procs :
          /\ (/\ Arrives(p, "get_subscription_users")
              /\ reqs'[p].id \in DOMAIN subs
              /\ subs[reqs'[p].id].tenant_id \in DOMAIN tenants
              /\ Outsider(reqs'[p].caller, subs[reqs'[p].id].tenant_id))
             => IF is_user_subscribed(subs[reqs'[p].id], reqs'[p].caller)
                THEN reqs'[p].resp = Ok
                ELSE Forbidden(reqs'[p].resp)
          /\ (/\ reqs[p].pc = "remove_user"
              /\ reqs'[p] # reqs[p]
              /\ Outsider(reqs[p].caller, reqs[p].loc[1].tenant_id)
              /\ is_user_subscribed(reqs[p].loc[1], reqs[p].caller)
              /\ reqs[p].uid # reqs[p].caller)
             => Forbidden(reqs'[p].resp) /\ subs' = subs]_vars

\* C17: an authenticated caller's request to read or to update their own user
\* record is never answered Forbidden, with or without the admin role; a
\* request to read or update another user's record is answered Forbidden.
C17_SelfAccess ==
    [][\A p \in Procs :
          (Arrives(p, "get_user") \/ Arrives(p, "update_user"))
          => IF reqs'[p].id = reqs'[p].caller
             THEN ~Forbidden(reqs'[p].resp)
             ELSE reqs'[p].pc = "done" /\ Forbidden(reqs'[p].resp) /\ users' = users]_vars

\* C18: a gated request whose target (the user, the tenant, the subscription,
\* the tenant of a new subscription or the owner of a new tenant) is not
\* stored is answered NotFound whoever the authenticated caller is.
C18_NotFoundBeforeForbidden ==
    [][\A p \in Procs :
          /\ (/\ Arrives(p, "get_user") \/ Arrives(p, "update_user")
              /\ reqs'[p].id \notin DOMAIN users)
             => NotFound(reqs'[p].resp)
          /\ (/\ Arrives(p, "update_tenant") \/ Arrives(p, "get_tenant_users")
              /\ reqs'[p].id \notin DOMAIN tenants)
             => NotFound(reqs'[p].resp)
          /\ (/\ Arrives(p, "create_tenant")
              /\ reqs'[p].body[1].owner_id \notin DOMAIN users)
             => NotFound(reqs'[p].resp)
          /\ (/\ Arrives(p, "create_subscription")
              /\ reqs'[p].body[1].tenant_id \notin DOMAIN tenants)
             => NotFound(reqs'[p].resp)
          /\ (/\ \/ Arrives(p, "update_subscription")
                 \/ Arrives(p, "add_user")
                 \/ Arrives(p, "remove_user")
                 \/ Arrives(p, "get_subscription_users")
              /\ reqs'[p].id \notin DOMAIN subs)
             => NotFound(reqs'[p].resp)]_vars

\* The statuses of Forbidden, NotFound, and Conflict or CapacityExceeded.
Refusals == {403, 404, 400}

\* C19: with requests served one at a time, a request that is answered
\* Forbidden, NotFound, Conflict or CapacityExceeded stores nothing: neither
\* the step that answers nor any step of a handler before its answer changes
\* a stored user, tenant or subscription.
C19_RefusalsStoreNothing ==
    [][\A p \in Procs :
          (/\ reqs'[p] # reqs[p]
           /\ \/ reqs'[p].pc # "done"
              \/ reqs'[p].resp.status \in Refusals)
          => /\ users' = users
             /\ tenants' = tenants
             /\ subs' = subs]_vars

\* After a user has registered, a registration under a taken email was
\* answered Conflict, and a full subscription holds its one member.
C19_Witness ==
    /\ reqs["p1"].pc = "done" /\ reqs["p1"].op = "create_user"
    /\ reqs["p1"].resp \in EmailConflict
    /\ Cardinality(DOMAIN users) > Cardinality(DOMAIN SeedUsers)
    /\ \E s \in DOMAIN subs : subs[s].max_users = Some(Len(subs[s].subscribed_user_ids))

C21_SubscribedIffActiveMember ==
    [][\A p \in Procs :
          Arrives(p, "is_user_subscribed")
          => (reqs'[p].body[1].result <=>
                \E s \in DOMAIN subs :
                    /\ subs[s].tenant_id = reqs'[p].id
                    /\ subs[s].is_active
                    /\ \E i \in 1..Len(subs[s].subscribed_user_ids) :
                          subs[s].subscribed_user_ids[i] = reqs'[p].body[1].user_id)]_vars

\* The answer was false for a user listed by a deactivated subscription of the
\* tenant and by an active subscription of another tenant.
C21_Witness ==
    /\ reqs["p1"].pc = "done" /\ reqs["p1"].op = "is_user_subscribed"
    /\ reqs["p1"].body[1].result = FALSE
    /\ \E s, t \in DOMAIN subs :
          /\ subs[s].tenant_id = reqs["p1"].id /\ ~subs[s].is_active
          /\ InList(reqs["p1"].body[1].user_id, subs[s].subscribed_user_ids)
          /\ subs[t].tenant_id # reqs["p1"].id /\ subs[t].is_active
          /\ InList(reqs["p1"].body[1].user_id, subs[t].subscribed_user_ids)

\* C22: the tenants answered to a user are exactly the stored tenants with at
\* least one subscription that lists the user.
C22_TenantsMemberOf ==
    [][\A p \in Procs :
          (Arrives(p, "get_user_tenants") /\ reqs'[p].resp = Ok)
          => reqs'[p].body[1].result =
                {t \in DOMAIN tenants :
                    \E s \in DOMAIN subs :
                        /\ subs[s].tenant_id = t
                        /\ InList(reqs'[p].caller, subs[s].subscribed_user_ids)}]_vars

\* The owner a create-tenant body names is a stored, active user.
OwnerResolves(owner_id) ==
    owner_id \in DOMAIN users /\ users[owner_id].is_active

\* C23: a create-tenant request whose owner_id names no stored user, or a
\* user who is not active, is answered NotFound and stores no tenant; every
\* tenant that is stored names an owner who is stored and active at the write.
C23_OwnerMustBeActive ==
    [][\A p \in Procs :
          /\ (Arrives(p, "create_tenant") /\ ~OwnerResolves(reqs'[p].body[1].owner_id))
             => /\ reqs'[p].pc = "done" /\ NotFound(reqs'[p].resp)
                /\ tenants' = tenants
          /\ \A t \in DOMAIN tenants' \ DOMAIN tenants :
                OwnerResolves(tenants'[t].owner_id)]_vars

\* The failure kind a response belongs to: by its status for the kinds the
\* handlers give a status of their own, by its detail for the 400 responses.
FailureKind(resp) ==
    IF resp.status = 401 THEN "Unauthorized"
    ELSE IF resp.status = 403 THEN "Forbidden"
    ELSE IF resp.status = 404 THEN "NotFound"
    ELSE IF resp \in DomainConflict \cup EmailConflict THEN "Conflict"
    ELSE IF resp = CapacityExceeded THEN "CapacityExceeded"
    ELSE IF resp = AlreadySubscribed THEN "AlreadySubscribed"
    ELSE IF resp = NotSubscribed THEN "NotSubscribed"
    ELSE "none"

\* C24: two answered requests whose failures are of different kinds
\* (NotFound, Conflict, Forbidden, Unauthorized, CapacityExceeded,
\* already-subscribed, not-subscribed) carry different statuses.
C24_DistinctStatus ==
    \A p, q \in Procs :
        (/\ reqs[p].pc = "done" /\ reqs[q].pc = "done"
         /\ FailureKind(reqs[p].resp) # "none" /\ FailureKind(reqs[q].resp) # "none"
         /\ FailureKind(reqs[p].resp) # FailureKind(reqs[q].resp))
        => reqs[p].resp.status # reqs[q].resp.status


\* C25: under interleaved add-member, remove-member and update requests on a
\* subscription no successful request is lost: a stored member leaves the
\* list only by a successful remove-member of that user, a user enters it only
\* by a successful add-member of that user, and a stored max_users changes
\* only by a successful update that sets it.
C25_NoLostUpdate ==
    [][\A s \in DOMAIN subs :
          /\ \A u \in UserIdPool :
                (/\ InList(u, subs[s].subscribed_user_ids)
                 /\ ~InList(u, subs'[s].subscribed_user_ids))
                => \E p \in Procs :
                       /\ RemoveCompletes(p) /\ reqs'[p].resp = Ok
                       /\ reqs[p].id = s /\ reqs[p].uid = u
          /\ \A u \in UserIdPool :
                (/\ ~InList(u, subs[s].subscribed_user_ids)
                 /\ InList(u, subs'[s].subscribed_user_ids))
                => \E p \in Procs :
                       /\ AddCompletes(p) /\ reqs'[p].resp = Ok
                       /\ reqs[p].id = s /\ reqs[p].uid = u
          /\ subs'[s].max_users # subs[s].max_users
             => \E p \in Procs :
                    /\ UpdateCompletes(p) /\ reqs'[p].resp = Ok
                    /\ reqs[p].id = s /\ reqs[p].body[1].max_users # None]_vars


\* C26: in every reachable state every stored subscription's tenant_id names
\* a stored tenant, every stored tenant's owner_id names a stored user, and
\* every id in a stored subscribed_user_ids names a stored user.
C26_ReferentialIntegrity ==
    /\ \A s \in DOMAIN subs :
          /\ subs[s].tenant_id \in DOMAIN tenants
          /\ \A i \in 1..Len(subs[s].subscribed_user_ids) :
                subs[s].subscribed_user_ids[i] \in DOMAIN users
    /\ \A t \in DOMAIN tenants : tenants[t].owner_id \in DOMAIN users

\* A tenant registered by a request holds a subscription with a member, and
\* the admission of an id that names no user has just been refused.
C26_Witness ==
    \E s \in DOMAIN subs :
        /\ subs[s].tenant_id = 2
        /\ subs[s].subscribed_user_ids # << >>
        /\ reqs["p1"].pc = "done" /\ reqs["p1"].op = "add_user"
        /\ reqs["p1"].id = s /\ reqs["p1"].uid \notin DOMAIN users
        /\ reqs["p1"].resp = Resp(404, "User not found")


\* The statuses by which a request is rejected before it acts.
Rejections == {400, 401, 403}

\* C27: a login with the email of a user whose is_active is false is answered
\* Unauthorized, and every protected request made as such a user is rejected
\* at once and stores nothing.
C27_InactiveIsLockedOut ==
    [][\A p \in Procs :
          /\ (/\ Arrives(p, "login")
              /\ \E u \in DOMAIN users :
                    users[u].email = reqs'[p].body[1].email /\ ~users[u].is_active)
             => reqs'[p].resp.status = 401
          /\ (/\ Free(p) /\ reqs'[p] # reqs[p]
              /\ reqs'[p].caller \in DOMAIN users
              /\ ~users[reqs'[p].caller].is_active)
             => /\ reqs'[p].pc = "done"
                /\ reqs'[p].resp.status \in Rejections
                /\ UNCHANGED << users, tenants, subs >>]_vars


\* C28: a stored user gains the admin role, by registration or by update,
\* only in a step of a request whose caller holds the admin role.
C28_NoEscalation ==
    [][\A u \in DOMAIN users' :
          (/\ "admin" \in users'[u].roles
           /\ u \in DOMAIN users => "admin" \notin users[u].roles)
          => \E p \in Procs :
                 /\ reqs'[p] # reqs[p]
                 /\ reqs[p].caller \in DOMAIN users
                 /\ IsAdmin(reqs[p].caller)]_vars


\* Caller c may see the members of subscription `sub`: an authenticated user
\* who owns the tenant, holds the admin role or is one of the members.
MaySeeMembers(c, sub) ==
    /\ c \in DOMAIN users
    /\ \/ tenants[sub.tenant_id].owner_id = c
       \/ IsAdmin(c)
       \/ InList(c, sub.subscribed_user_ids)

\* C29: an answer that carries a subscription's member list or its members
\* (get subscription by id, list members, list tenant users) goes only to a
\* caller who may see them, and the list of subscriptions carries no member
\* list at all.
C29_MembersDisclosedToAuthorized ==
    [][\A p \in Procs :
          /\ (Arrives(p, "get_subscription") /\ reqs'[p].resp = Ok)
             => \/ "subscribed_user_ids" \notin DOMAIN reqs'[p].body[1]
                \/ MaySeeMembers(reqs'[p].caller, subs[reqs'[p].id])
          /\ (Arrives(p, "get_subscription_users") /\ reqs'[p].resp = Ok)
             => MaySeeMembers(reqs'[p].caller, subs[reqs'[p].id])
          /\ (Arrives(p, "get_tenant_users") /\ reqs'[p].resp = Ok)
             => \A s \in DOMAIN subs :
                    subs[s].tenant_id = reqs'[p].id
                    => MaySeeMembers(reqs'[p].caller, subs[s])
          /\ Arrives(p, "get_subscriptions")
             => \A r \in reqs'[p].body[1] : "subscribed_user_ids" \notin DOMAIN r]_vars


\* C30: a stored tenant keeps its owner_id in every step, and a tenant enters
\* the store only by the save of a create-tenant request whose caller is the
\* owner_id it is stored with.
C30_OwnerFixed ==
    [][/\ \A t \in DOMAIN tenants :
             t \in DOMAIN tenants' /\ tenants'[t].owner_id = tenants[t].owner_id
       /\ \A t \in DOMAIN tenants' \ DOMAIN tenants :
             \E p \in Procs :
                 /\ reqs[p].pc = "create_tenant" /\ reqs'[p].pc = "done"
                 /\ reqs'[p].resp = Ok /\ reqs'[p].id = t
                 /\ tenants'[t].owner_id = reqs[p].caller]_vars

\* A tenant registered by user 2 was renamed, moved to another domain and
\* deactivated by accepted updates, and is still owned by user 2.
C30_Witness ==
    \E t \in DOMAIN tenants :
        /\ reqs["p1"].pc = "done" /\ reqs["p1"].op = "update_tenant"
        /\ reqs["p1"].id = t /\ reqs["p1"].resp = Ok
        /\ tenants[t].name = "Renamed" /\ tenants[t].domain = "beta.io"
        /\ ~tenants[t].is_active
        /\ tenants[t].owner_id = 2

====
